---------------------------- MODULE Spec2Model ----------------------------
(***************************************************************************)
(* A model of svi_module.py: the SVI smile formula, its calibration        *)
(* objective, the multi-start calibration loop, the per-maturity surface   *)
(* generator and the outlier filter.                                       *)
(*                                                                         *)
(* Numbers.  The program computes in floating point; the model computes in *)
(* exact fixed point over integers.                                        *)
(*   - a, m_param, sigma, k and v are whole numbers of one unit;           *)
(*   - rho is a numerator over RhoDen, so rho = 1 is the number 1/2 and    *)
(*     |rho| >= RhoDen is the program's abs(rho) >= 1;                     *)
(*   - a model value is kept multiplied by RhoDen, a cost by RhoDen^2;     *)
(*   - a cost is a record [inf, e10, u] standing for e10 * 10^10 + u (or   *)
(*     for +infinity), because 1e10 is beyond the 32-bit integers of TLC.  *)
(***************************************************************************)
EXTENDS Integers, Sequences, FiniteSets, TLC

VARIABLES
    pc,                 \* where the modelled call stands
    params,             \* svi_objective: the parameter set passed in
    k,                  \* log moneyness values of the slice
    v,                  \* market implied volatilities of the slice (working scale)
    lambda_reg,         \* regularization weight (reg_weight of the generator)
    multi_start_count,  \* number of starts
    model_values,       \* svi_objective: line 38
    obj_val,            \* svi_objective: the value returned
    i,                  \* calibrate_svi: attempts made so far
    best_params,        \* calibrate_svi: line 55 / 82
    best_obj_val,       \* calibrate_svi: line 56 / 81
    attempts,           \* calibrate_svi: outcomes of the attempts made (history)
    ret,                \* calibrate_svi: the value returned
    unique_maturities,  \* generate_svi_calibrated_data: the maturities to visit
    imp_vol_data,       \* the quote table passed in by the caller
    spot_price,
    option_data_type,
    midx,               \* generate_svi_calibrated_data: maturities visited so far
    svi_calibrated_data,\* generate_svi_calibrated_data: line 102 / 122
    processed,          \* generate_svi_calibrated_data: what each visit did (history)
    out,                \* the table returned (generator) / the rows returned (filter)
    has_volume          \* filter_outliers: "volume" in imp_vol_data.columns

objVars == <<params, model_values, obj_val>>
sliceVars == <<k, v>>
cfgVars == <<lambda_reg, multi_start_count>>
calVars == <<i, best_params, best_obj_val, attempts, ret>>
inVars == <<unique_maturities, imp_vol_data, spot_price, option_data_type, has_volume>>
genVars == <<midx, svi_calibrated_data, processed>>

vars == <<pc, objVars, sliceVars, cfgVars, calVars, inVars, genVars, out>>

---------------------------------------------------------------------------
(* Bounds of the model *)

MaxQuotes == 2
MaxStarts == 3

MaxMaturities == 2
MaxRows == 5

(* Constants of the program *)

MinQuotes == 5
VolScale == 100
GridPoints == 100
GridMargin == 1
IscloseRtolInv == 100000
IscloseAtol == 1

VolumeMin == 10
IqrFactor == 2

(* Fixed point *)

RhoDen == 2

---------------------------------------------------------------------------
(* Floating-point values of the objective *)

Fl(h, l) == [inf |-> FALSE, e10 |-> h, u |-> l]

Inf == [inf |-> TRUE, e10 |-> 0, u |-> 0]

\* x < y on these values
FlLess(x, y) ==
    IF x.inf THEN FALSE
    ELSE IF y.inf THEN TRUE
    ELSE x.e10 < y.e10 \/ (x.e10 = y.e10 /\ x.u < y.u)

\* 1e10, in cost units (RhoDen^2 per whole unit)
Penalty == Fl(RhoDen * RhoDen, 0)

None == <<>>

\* model_values before line 38 has run
NotEvaluated == [evaluated |-> FALSE, values |-> <<>>]

---------------------------------------------------------------------------
(* Pure functions *)

Abs(x) == IF x < 0 THEN -x ELSE x

RECURSIVE SqrtIn(_, _, _)
\* the largest r in lo..hi-1 with r*r <= n, given lo*lo <= n < hi*hi
SqrtIn(n, lo, hi) ==
    IF hi - lo <= 1 THEN lo
    ELSE LET mid == (lo + hi) \div 2
         IN  IF mid * mid <= n THEN SqrtIn(n, mid, hi) ELSE SqrtIn(n, lo, mid)

\* np.sqrt on the fixed-point grid: the largest r with r*r <= n
\* (46341 squared is beyond the 32-bit integers of TLC)
Sqrt(n) == SqrtIn(n, 0, IF n < 46341 THEN n + 1 ELSE 46341)

\* svi_model at one point, times RhoDen
svi_model(kk, a, b, rho, m_param, sigma) ==
    RhoDen * a
      + b * (rho * (kk - m_param)
             + RhoDen * Sqrt((kk - m_param) * (kk - m_param) + sigma * sigma))

RECURSIVE SumSqErr(_, _, _, _)
\* np.sum((model_values - v) ** 2) over the first n points, times RhoDen^2
SumSqErr(p, ks, vs, n) ==
    IF n = 0 THEN 0
    ELSE LET d == svi_model(ks[n], p[1], p[2], p[3], p[4], p[5]) - RhoDen * vs[n]
         IN  d * d + SumSqErr(p, ks, vs, n - 1)

\* the validity gate of svi_objective
InvalidParams(p) == p[2] < 0 \/ p[5] <= 0 \/ Abs(p[3]) >= RhoDen

\* reg_penalty of svi_objective, times RhoDen^2
RegPenalty(p, lam) == lam * RhoDen * RhoDen * (p[2] * p[2] + p[5] * p[5])

\* a gate that lets the boundary values sigma = 0 and |rho| = 1 through
svi_objective_run_mut_gate(p, ks, vs, lam) ==
    IF p[2] < 0 \/ p[5] < 0 \/ Abs(p[3]) > RhoDen
    THEN [evaluated |-> FALSE, model_values |-> <<>>, value |-> Penalty]
    ELSE LET mv == [j \in 1..Len(ks) |->
                      svi_model(ks[j], p[1], p[2], p[3], p[4], p[5])]
         IN  [evaluated |-> TRUE, model_values |-> mv,
              value |-> Fl(0, SumSqErr(p, ks, vs, Len(ks)) + RegPenalty(p, lam))]

\* one run of svi_objective: whether line 38 was reached, what it computed,
\* and the value returned
svi_objective_run(p, ks, vs, lam) ==
    IF InvalidParams(p)
    THEN [evaluated |-> FALSE, model_values |-> <<>>, value |-> Penalty]
    ELSE LET mv == [j \in 1..Len(ks) |->
                      svi_model(ks[j], p[1], p[2], p[3], p[4], p[5])]
         IN  [evaluated |-> TRUE, model_values |-> mv,
              value |-> Fl(0, SumSqErr(p, ks, vs, Len(ks)) + RegPenalty(p, lam))]

svi_objective(p, ks, vs, lam) == svi_objective_run(p, ks, vs, lam).value

---------------------------------------------------------------------------
(* Inputs *)

KVals == {-1, 1}
VVals == {1, 2}
Lambdas == {0, 1}

\* the slices k, v of equal length up to n points
Slices(n) ==
    UNION {[1..len -> KVals] \X [1..len -> VVals] : len \in 0..n}

\* parameter vectors [a, b, rho, m_param, sigma] passed to the objective
ParamGrid == {0, 1} \X (-1..1) \X (-RhoDen..RhoDen) \X {0, 1} \X (-1..1)

\* points a local search may end at (result.x)
ResultGrid ==
    { <<1, 0, 0, 0, 1>>, <<2, 0, 0, 0, 1>>, <<1, 1, 1, 0, 1>>, <<1, -1, 0, 0, 1>> }

\* the state of the parts a call does not use
CalIdle ==
    /\ i = 0
    /\ best_params = None
    /\ best_obj_val = Inf
    /\ attempts = {}
    /\ ret = None

GenIdle ==
    /\ unique_maturities = <<>>
    /\ imp_vol_data = <<>>
    /\ spot_price = 0
    /\ option_data_type = ""
    /\ has_volume = FALSE
    /\ midx = 0
    /\ svi_calibrated_data = <<>>
    /\ processed = <<>>
    /\ out = <<>>

---------------------------------------------------------------------------
(* svi_objective called on its own *)

InitObjective ==
    /\ pc = "objective"
    /\ params \in ParamGrid
    /\ \E s \in Slices(MaxQuotes) : k = s[1] /\ v = s[2]
    /\ lambda_reg \in Lambdas
    /\ multi_start_count = 0
    /\ model_values = NotEvaluated
    /\ obj_val = Inf
    /\ CalIdle
    /\ GenIdle

svi_objective_call ==
    /\ pc = "objective"
    /\ pc' = "objective_done"
    /\ LET r == svi_objective_run(params, k, v, lambda_reg)
       IN  /\ model_values' = [evaluated |-> r.evaluated, values |-> r.model_values]
           /\ obj_val' = r.value
    /\ params' = params
    /\ UNCHANGED <<sliceVars, cfgVars, calVars, inVars, genVars, out>>

NextObjective == svi_objective_call

SpecObjective == InitObjective /\ [][NextObjective]_vars

\* C5: svi_objective returns the penalty 1e10, without evaluating the model,
\* exactly when b < 0 or sigma <= 0 or |rho| >= 1; for every other parameter
\* set it evaluates the model and returns the squared error plus the
\* regularization term.
C5_PenaltyGate ==
    pc = "objective_done" =>
        IF params[2] < 0 \/ params[5] <= 0 \/ params[3] >= RhoDen \/ params[3] <= -RhoDen
        THEN obj_val = Penalty /\ ~model_values.evaluated
        ELSE /\ model_values.evaluated
             /\ Len(model_values.values) = Len(k)
             /\ ~obj_val.inf
             /\ obj_val.e10 = 0
             /\ obj_val.u = SumSqErr(params, k, v, Len(k))
                              + lambda_reg * RhoDen * RhoDen
                                  * (params[2] * params[2] + params[5] * params[5])

\* a boundary parameter set (sigma = 0) was penalized on a non-empty slice
C5_Witness ==
    /\ pc = "objective_done"
    /\ params[5] = 0 /\ params[2] >= 0 /\ Abs(params[3]) < RhoDen
    /\ Len(k) > 0
    /\ obj_val = Penalty

---------------------------------------------------------------------------
(* calibrate_svi called on its own *)

\* an attempt that raised inside the try block
Threw == [threw |-> TRUE, x |-> None, fun |-> Inf]

\* scipy.optimize.minimize on the objective: it raises, or it ends at some
\* point x and reports fun = svi_objective(x).  The start point x0 of lines
\* 61-66 only seeds the search and is not kept.  The box of lines 69-75 is
\* handed to the search, and the gate of line 36 is there for the points
\* outside it that the search may still propose; ResultGrid holds points of
\* both kinds.
minimize(ks, vs, lam) ==
    {Threw} \cup
    {[threw |-> FALSE, x |-> p, fun |-> svi_objective(p, ks, vs, lam)] : p \in ResultGrid}

\* a loop that forgets the comparison and keeps the latest result
TrackBest_mut_latest(best, res) ==
    IF res.threw THEN best
    ELSE [params |-> res.x, obj_val |-> res.fun]

\* lines 80-84: the effect of one attempt on (best_params, best_obj_val)
TrackBest(best, res) ==
    IF res.threw THEN best
    ELSE IF FlLess(res.fun, best.obj_val)
         THEN [params |-> res.x, obj_val |-> res.fun]
         ELSE best

InitCalibrate ==
    /\ pc = "calibrate"
    /\ params = None
    /\ \E s \in Slices(MaxQuotes) : k = s[1] /\ v = s[2]
    /\ lambda_reg \in Lambdas
    /\ multi_start_count \in 1..MaxStarts
    /\ model_values = NotEvaluated
    /\ obj_val = Inf
    /\ CalIdle
    /\ GenIdle

\* lines 55-57: np.min(v) raises ValueError on an empty array, outside the try
calibrate_begin ==
    /\ pc = "calibrate"
    /\ pc' = IF Len(v) = 0 THEN "calibrate_raised" ELSE "calibrate_loop"
    /\ UNCHANGED <<objVars, sliceVars, cfgVars, calVars, inVars, genVars, out>>

\* lines 59-84: one pass of the loop
calibrate_attempt ==
    /\ pc = "calibrate_loop"
    /\ i < multi_start_count
    /\ \E res \in minimize(k, v, lambda_reg) :
         LET best == TrackBest([params |-> best_params, obj_val |-> best_obj_val], res)
         IN  /\ best_params' = best.params
             /\ best_obj_val' = best.obj_val
             /\ attempts' = attempts \cup {res}
    /\ i' = i + 1
    /\ UNCHANGED <<pc, ret, objVars, sliceVars, cfgVars, inVars, genVars, out>>

\* line 86
calibrate_return ==
    /\ pc = "calibrate_loop"
    /\ i = multi_start_count
    /\ pc' = "calibrate_returned"
    /\ ret' = best_params
    /\ UNCHANGED <<i, best_params, best_obj_val, attempts>>
    /\ UNCHANGED <<objVars, sliceVars, cfgVars, inVars, genVars, out>>

NextCalibrate == calibrate_begin \/ calibrate_attempt \/ calibrate_return

SpecCalibrate == InitCalibrate /\ [][NextCalibrate]_vars

\* the attempts that produced a result
Candidates == {r \in attempts : ~r.threw}

\* C1: calibrate_svi returns the best attempt: when some attempt did not
\* throw, the parameter set returned is the result of one of them, and no
\* attempt that did not throw has a lower objective value.
C1_ReturnsBestAttempt ==
    pc = "calibrate_returned" =>
        /\ Candidates # {} => ret # None
        /\ ret # None =>
             \E r \in Candidates :
                /\ r.x = ret
                /\ \A q \in Candidates : ~FlLess(q.fun, r.fun)

\* three attempts with three different objective values, none of them the
\* penalty, and one of them returned
C1_Witness ==
    /\ pc = "calibrate_returned"
    /\ multi_start_count = 3
    /\ Cardinality({r.fun : r \in Candidates}) = 3
    /\ \A r \in Candidates : r.fun # Penalty
    /\ ret # None

C3_NeverRaises ==
    /\ pc # "calibrate_raised"
    /\ pc = "calibrate_returned" =>
         /\ i = multi_start_count
         /\ ret = None => Candidates = {}

---------------------------------------------------------------------------
(* generate_svi_calibrated_data *)
(* TimeToExpiry is counted in units of 1e-8 year, so that the absolute       *)
(* tolerance of np.isclose is 1 unit; LogMoneyness in units of 0.1, so that  *)
(* GridMargin is the 0.1 of line 117; ImpliedVolatility of the quote table   *)
(* in whole units, multiplied by VolScale on the way in.  A row of the       *)
(* output holds LogMoneyness in units of 0.1 / (GridPoints - 1) and          *)
(* ImpliedVolatility in units of 1 / (VolScale * RhoDen * (GridPoints - 1)); *)
(* np.exp is left as an uninterpreted term.                                  *)

\* np.isclose(x, y): |x - y| <= atol + rtol * |y|, with rtol = 1e-5, atol = 1e-8
isclose(x, y) == IscloseRtolInv * Abs(x - y) <= IscloseRtolInv * IscloseAtol + Abs(y)

\* lines 59-86 as a function of the outcomes of the attempts, in order
RECURSIVE FoldAttempts(_, _, _)
FoldAttempts(best, outs, j) ==
    IF j > Len(outs) THEN best
    ELSE FoldAttempts(TrackBest(best, outs[j]), outs, j + 1)

calibrate_svi(outs) == FoldAttempts([params |-> None, obj_val |-> Inf], outs, 1).params

RECURSIVE MinOf(_, _)
MinOf(s, n) == IF n = 1 THEN s[1]
               ELSE LET r == MinOf(s, n - 1) IN IF s[n] < r THEN s[n] ELSE r

RECURSIVE MaxOf(_, _)
MaxOf(s, n) == IF n = 1 THEN s[1]
               ELSE LET r == MaxOf(s, n - 1) IN IF s[n] > r THEN s[n] ELSE r

\* np.linspace(start, stop, num)[j], times (num - 1)
linspace(start, stop, num, j) == (num - 1) * start + j * (stop - start)

\* line 128, on the labels the callers pass
OptionTypeLabel(t) ==
    CASE t = "Calls Only" -> "Calls"
      [] t = "Puts Only" -> "Puts"
      [] t = "Both Calls & Puts" -> "Both"
      [] OTHER -> t

\* the dictionary appended at lines 122-129 for grid point j (from 0) of
\* the grid from lo to hi
SurfaceRow(maturity, lo, hi, p, spot, label, j) ==
    LET g  == GridPoints - 1
        kj == linspace(lo, hi, GridPoints, j)
    IN  [TimeToExpiry |-> maturity,
         LogMoneyness |-> kj,
         StrikePrice |-> <<spot, "* exp", kj>>,
         Moneyness |-> <<"exp", kj>>,
         ImpliedVolatility |-> svi_model(kj, g * p[1], p[2], p[3], g * p[4], g * p[5]),
         OptionType |-> OptionTypeLabel(label)]

\* a grid that forgets the margin above max(k)
SurfaceRows_mut_margin(maturity, ks, p, spot, label) ==
    LET lo == MinOf(ks, Len(ks)) - GridMargin
        hi == MaxOf(ks, Len(ks))
    IN  [j \in 1..GridPoints |-> SurfaceRow(maturity, lo, hi, p, spot, label, j - 1)]

\* lines 116-129: the rows of one calibrated maturity
SurfaceRows(maturity, ks, p, spot, label) ==
    LET lo == MinOf(ks, Len(ks)) - GridMargin
        hi == MaxOf(ks, Len(ks)) + GridMargin
    IN  [j \in 1..GridPoints |-> SurfaceRow(maturity, lo, hi, p, spot, label, j - 1)]

\* the columns of a DataFrame built from those dictionaries
RowColumns ==
    <<"TimeToExpiry", "LogMoneyness", "StrikePrice", "Moneyness",
      "ImpliedVolatility", "OptionType">>

\* the columns given at line 134
EmptyColumns ==
    <<"TimeToExpiry", "StrikePrice", "Moneyness", "ImpliedVolatility", "OptionType">>

\* line 105
MaturityData(data, maturity) ==
    LET close(r) == isclose(r.TimeToExpiry, maturity)
    IN  SelectSeq(data, close)

\* a check that lets a slice of MinQuotes - 1 quotes through
TooFew_mut_offbyone(n) == n < MinQuotes - 1

\* line 106: a slice too small to calibrate
TooFew(n) == n < MinQuotes

\* a skip that leaves the loop instead of going on to the next maturity
Continue_mut_break(idx, len) == len

\* the continue of lines 107 and 114: the loop goes on with the next maturity
Continue(idx, len) == idx + 1

\* rows put in front of the earlier ones
AppendRows_mut_prepend(data, rows) == rows \o data

\* line 122, for the rows of one maturity
AppendRows(data, rows) == data \o rows

(* Inputs of the generator *)

TimeSeq == <<200000, 200002, 200010>>
\* how many quotes the table may hold at each of the three times
SliceCounts == << {2, 5}, {0, 2}, {0, 5} >>
KPattern == << <<0, -2, 1, 3, -1>>, <<1, 4, -3, 0, 2>>, <<-1, 0, 1, 2, -2>> >>
IVPattern == <<2, 1, 1, 2, 3>>
OptionDataTypes == {"Both", "Calls Only"}

RECURSIVE QuoteTable(_, _)
\* the quotes of the first t times, cnt[t] of them at time TimeSeq[t]
QuoteTable(cnt, t) ==
    IF t = 0 THEN <<>>
    ELSE QuoteTable(cnt, t - 1) \o
         [j \in 1..cnt[t] |->
            [TimeToExpiry |-> TimeSeq[t], LogMoneyness |-> KPattern[t][j],
             ImpliedVolatility |-> IVPattern[j]]]

\* sequences of distinct maturities
MaturityLists ==
    {m \in UNION {[1..n -> {TimeSeq[t] : t \in 1..Len(TimeSeq)}] : n \in 0..MaxMaturities} :
        \A x, y \in 1..Len(m) : x # y => m[x] # m[y]}

InitGenerate ==
    /\ pc = "generate"
    /\ params = None
    /\ model_values = NotEvaluated
    /\ obj_val = Inf
    /\ k = <<>>
    /\ v = <<>>
    /\ lambda_reg \in {0}
    /\ multi_start_count \in 1..MaxStarts
    /\ CalIdle
    /\ unique_maturities \in MaturityLists
    /\ \E cnt \in [1..Len(TimeSeq) -> 0..MinQuotes] :
          /\ \A t \in 1..Len(TimeSeq) : cnt[t] \in SliceCounts[t]
          /\ imp_vol_data = QuoteTable(cnt, Len(TimeSeq))
    /\ spot_price = 100
    /\ option_data_type \in OptionDataTypes
    /\ has_volume = FALSE
    /\ midx = 0
    /\ svi_calibrated_data = <<>>
    /\ processed = <<>>
    /\ out = <<>>

\* lines 104-129: one pass of the loop over the maturities
generate_maturity ==
    /\ pc = "generate"
    /\ midx < Len(unique_maturities)
    /\ LET maturity == unique_maturities[midx + 1]
           maturity_data == MaturityData(imp_vol_data, maturity)
           n == Len(maturity_data)
       IN  IF TooFew(n)
           THEN /\ midx' = Continue(midx, Len(unique_maturities))
                /\ processed' = Append(processed,
                                  [maturity |-> maturity, n |-> n, params |-> None])
                /\ UNCHANGED <<sliceVars, svi_calibrated_data>>
           ELSE LET ks == [j \in 1..n |-> maturity_data[j].LogMoneyness]
                    vs == [j \in 1..n |-> maturity_data[j].ImpliedVolatility * VolScale]
                    results == minimize(ks, vs, lambda_reg)
                    \* what calibrate_svi can return at line 111
                    fits == {calibrate_svi(outs) :
                                outs \in [1..multi_start_count -> results]}
                IN  /\ k' = ks
                    /\ v' = vs
                    /\ \E p \in fits :
                         /\ processed' = Append(processed,
                                [maturity |-> maturity, n |-> n, params |-> p])
                         /\ IF p = None
                            THEN /\ midx' = Continue(midx, Len(unique_maturities))
                                 /\ UNCHANGED svi_calibrated_data
                            ELSE /\ midx' = midx + 1
                                 /\ svi_calibrated_data' =
                                      AppendRows(svi_calibrated_data,
                                                 SurfaceRows(maturity, ks, p, spot_price,
                                                             option_data_type))
    /\ UNCHANGED <<pc, objVars, cfgVars, calVars, inVars, out>>

\* lines 131-134
generate_return ==
    /\ pc = "generate"
    /\ midx = Len(unique_maturities)
    /\ pc' = "generate_done"
    /\ out' = IF svi_calibrated_data # <<>>
              THEN [columns |-> RowColumns, rows |-> svi_calibrated_data]
              ELSE [columns |-> EmptyColumns, rows |-> <<>>]
    /\ UNCHANGED <<objVars, sliceVars, cfgVars, calVars, inVars, genVars>>

NextGenerate == generate_maturity \/ generate_return

SpecGenerate == InitGenerate /\ [][NextGenerate]_vars

\* the quotes of the table that line 105 selects for maturity t
SliceSize(t) ==
    Cardinality({j \in 1..Len(imp_vol_data) : isclose(imp_vol_data[j].TimeToExpiry, t)})

\* the log moneyness values of those quotes
SliceK(t) ==
    {imp_vol_data[j].LogMoneyness :
        j \in {x \in 1..Len(imp_vol_data) : isclose(imp_vol_data[x].TimeToExpiry, t)}}

\* the places of the returned rows that carry maturity t
RowsOf(t) == {j \in 1..Len(out.rows) : out.rows[j].TimeToExpiry = t}

\* the place of maturity t in unique_maturities
PlaceOf(t) == CHOOSE x \in 1..Len(unique_maturities) : unique_maturities[x] = t

\* C4 as stated: the table returned has exactly the six columns in every run,
\* the run that calibrated no maturity included.
C4_SixColumns ==
    pc = "generate_done" =>
        out.columns = <<"TimeToExpiry", "LogMoneyness", "StrikePrice", "Moneyness",
                        "ImpliedVolatility", "OptionType">>

\* C6: a maturity whose slice has fewer than 5 quotes is skipped: the loop
\* visits every maturity and the table returned has no row with that maturity.
C6_TooFewQuotesNoRows ==
    pc = "generate_done" =>
        /\ Len(processed) = Len(unique_maturities)
        /\ \A x \in 1..Len(unique_maturities) :
              SliceSize(unique_maturities[x]) < 5 => RowsOf(unique_maturities[x]) = {}

\* a maturity with 4 quotes was visited and another maturity produced rows
C6_Witness ==
    /\ pc = "generate_done"
    /\ \E x \in 1..Len(unique_maturities) : SliceSize(unique_maturities[x]) = 4
    /\ Len(out.rows) > 0

\* C7: every maturity with at least 5 quotes whose calibration returned a
\* parameter set has exactly 100 rows; their LogMoneyness values start at
\* min(k) - 0.1, end at max(k) + 0.1 and grow by one and the same positive step.
C7_HundredRowsOnGrid ==
    pc = "generate_done" =>
        \A x \in 1..Len(processed) :
            LET t == unique_maturities[x]
                kmin == CHOOSE a \in SliceK(t) : \A b \in SliceK(t) : a <= b
                kmax == CHOOSE a \in SliceK(t) : \A b \in SliceK(t) : a >= b
                g == 100 - 1
            IN  (SliceSize(t) >= 5 /\ processed[x].params # None) =>
                  /\ Cardinality(RowsOf(t)) = 100
                  /\ \E f \in RowsOf(t) :
                       /\ RowsOf(t) = f..(f + 99)
                       /\ out.rows[f].LogMoneyness = g * (kmin - GridMargin)
                       /\ out.rows[f + 99].LogMoneyness = g * (kmax + GridMargin)
                       /\ \A j \in f..(f + 98) :
                            /\ out.rows[j + 1].LogMoneyness > out.rows[j].LogMoneyness
                            /\ out.rows[j + 1].LogMoneyness - out.rows[j].LogMoneyness
                                 = out.rows[f + 1].LogMoneyness - out.rows[f].LogMoneyness

\* a maturity whose 7 quotes come from two close times was calibrated
C7_Witness ==
    /\ pc = "generate_done"
    /\ \E x \in 1..Len(unique_maturities) :
          /\ SliceSize(unique_maturities[x]) = 7
          /\ processed[x].params # None
          /\ RowsOf(unique_maturities[x]) # {}

\* C8: a maturity whose calibration returned None has no rows, the run ends
\* with a table, every maturity is visited, and each later maturity that was
\* calibrated has its rows in the table.
C8_FailureIsLocal ==
    pc = "generate_done" =>
        \A x \in 1..Len(processed) :
            (SliceSize(unique_maturities[x]) >= 5 /\ processed[x].params = None) =>
                /\ RowsOf(unique_maturities[x]) = {}
                /\ Len(processed) = Len(unique_maturities)
                /\ \A y \in (x + 1)..Len(unique_maturities) :
                      (SliceSize(unique_maturities[y]) >= 5 /\ processed[y].params # None)
                         => RowsOf(unique_maturities[y]) # {}

\* a calibration failed and a later maturity has rows
C8_Witness ==
    /\ pc = "generate_done"
    /\ \E x \in 1..Len(unique_maturities) :
          /\ SliceSize(unique_maturities[x]) >= 5
          /\ processed[x].params = None
          /\ \E y \in (x + 1)..Len(unique_maturities) : RowsOf(unique_maturities[y]) # {}

\* C9: the rows are ordered by the place of their maturity in
\* unique_maturities and, within a maturity, by increasing LogMoneyness.
\* (Stated on neighbouring rows; both orders are transitive, so it holds of
\* every pair of rows, and the rows of one maturity are contiguous.)
C9_RowOrder ==
    pc = "generate_done" =>
        \A j \in 1..(Len(out.rows) - 1) :
            LET r == out.rows[j]
                s == out.rows[j + 1]
            IN  /\ PlaceOf(r.TimeToExpiry) <= PlaceOf(s.TimeToExpiry)
                /\ r.TimeToExpiry = s.TimeToExpiry => r.LogMoneyness < s.LogMoneyness

\* two maturities have rows in the table
C9_Witness ==
    /\ pc = "generate_done"
    /\ Cardinality({out.rows[j].TimeToExpiry : j \in 1..Len(out.rows)}) >= 2

---------------------------------------------------------------------------
(* filter_outliers *)
(* A table is a sequence of rows; a row carries its index label, its        *)
(* ImpliedVolatility and, when the table has the column, its volume.        *)
(* Quartiles are kept multiplied by 4, which makes the linear interpolation *)
(* of Series.quantile exact.                                                *)

\* the j-th smallest of the values of s (j from 1)
OrderStat(s, j) ==
    CHOOSE x \in {s[n] : n \in 1..Len(s)} :
        /\ Cardinality({n \in 1..Len(s) : s[n] < x}) < j
        /\ j <= Cardinality({n \in 1..Len(s) : s[n] <= x})

\* Series.quantile(q4 / 4) of a non-empty series, times 4: the value at the
\* fractional place (n - 1) * q4 / 4 of the sorted values, interpolated linearly
quantile(s, q4) ==
    LET h  == (Len(s) - 1) * q4
        lo == h \div 4
        r  == h % 4
    IN  IF r = 0 THEN 4 * OrderStat(s, lo + 1)
        ELSE 4 * OrderStat(s, lo + 1)
               + r * (OrderStat(s, lo + 2) - OrderStat(s, lo + 1))

\* quartiles taken over the table as passed in, before the volume filter
filter_outliers_mut_quartiles(data, hv) ==
    LET liquid(r) == r.volume > VolumeMin
        d1  == IF hv THEN SelectSeq(data, liquid) ELSE data
        ivs == [j \in 1..Len(data) |-> data[j].ImpliedVolatility]
    IN  IF Len(data) = 0 THEN d1
        ELSE LET Q1  == quantile(ivs, 1)
                 Q3  == quantile(ivs, 3)
                 IQR == Q3 - Q1
                 lower_bound == Q1 - IqrFactor * IQR
                 upper_bound == Q3 + IqrFactor * IQR
                 inside(r) == /\ 4 * r.ImpliedVolatility >= lower_bound
                              /\ 4 * r.ImpliedVolatility <= upper_bound
             IN  SelectSeq(d1, inside)

\* lines 146-157; on an empty series the quartiles are NaN, every comparison
\* with them is False and the (empty) table comes back empty
filter_outliers(data, hv) ==
    LET liquid(r) == r.volume > VolumeMin
        d1  == IF hv THEN SelectSeq(data, liquid) ELSE data
        ivs == [j \in 1..Len(d1) |-> d1[j].ImpliedVolatility]
    IN  IF Len(d1) = 0 THEN d1
        ELSE LET Q1  == quantile(ivs, 1)
                 Q3  == quantile(ivs, 3)
                 IQR == Q3 - Q1
                 lower_bound == Q1 - IqrFactor * IQR
                 upper_bound == Q3 + IqrFactor * IQR
                 inside(r) == /\ 4 * r.ImpliedVolatility >= lower_bound
                              /\ 4 * r.ImpliedVolatility <= upper_bound
             IN  SelectSeq(d1, inside)

(* Inputs of the filter *)

FilterIVs == {1, 2, 9}
FilterVolumes == {10, 11}

\* the tables of up to n rows, with and without a volume column
FilterTables(n, hv) ==
    IF hv
    THEN UNION {{[j \in 1..len |->
                    [index |-> j, ImpliedVolatility |-> iv[j], volume |-> vol[j]]] :
                    iv \in [1..len -> FilterIVs], vol \in [1..len -> FilterVolumes]} :
                len \in 0..n}
    ELSE UNION {{[j \in 1..len |-> [index |-> j, ImpliedVolatility |-> iv[j]]] :
                    iv \in [1..len -> FilterIVs]} :
                len \in 0..n}

InitFilter ==
    /\ pc = "filter"
    /\ params = None
    /\ model_values = NotEvaluated
    /\ obj_val = Inf
    /\ k = <<>>
    /\ v = <<>>
    /\ lambda_reg = 0
    /\ multi_start_count = 0
    /\ CalIdle
    /\ unique_maturities = <<>>
    /\ has_volume \in BOOLEAN
    /\ imp_vol_data \in FilterTables(MaxRows, has_volume)
    /\ spot_price = 0
    /\ option_data_type = ""
    /\ midx = 0
    /\ svi_calibrated_data = <<>>
    /\ processed = <<>>
    /\ out = <<>>

\* the call: the name imp_vol_data is rebound inside the function only, the
\* caller's table is not written
filter_outliers_call ==
    /\ pc = "filter"
    /\ pc' = "filter_done"
    /\ out' = filter_outliers(imp_vol_data, has_volume)
    /\ UNCHANGED <<objVars, sliceVars, cfgVars, calVars, inVars, genVars>>

NextFilter == filter_outliers_call

SpecFilter == InitFilter /\ [][NextFilter]_vars

\* the rows of the caller's table that pass the volume filter
Liquid == {j \in 1..Len(imp_vol_data) : has_volume => imp_vol_data[j].volume > 10}

\* C10: filter_outliers returns, in their order, exactly the rows that have
\* volume > 10 (when there is a volume column) and whose ImpliedVolatility lies
\* in [Q1 - 2 IQR, Q3 + 2 IQR], bounds included, Q1 and Q3 being the quartiles
\* over the rows that passed the volume filter; the caller's table is unchanged.
C10_FilterOutliers ==
    [][pc' = "filter_done" =>
        /\ imp_vol_data' = imp_vol_data
        /\ LET passes(r) == has_volume => r.volume > 10
               left == SelectSeq(imp_vol_data, passes)
               rest == [j \in 1..Len(left) |-> left[j].ImpliedVolatility]
               q1 == quantile(rest, 1)
               q3 == quantile(rest, 3)
               kept == {j \in Liquid :
                          /\ 4 * imp_vol_data[j].ImpliedVolatility >= q1 - 2 * (q3 - q1)
                          /\ 4 * imp_vol_data[j].ImpliedVolatility <= q3 + 2 * (q3 - q1)}
           IN  /\ {out'[j].index : j \in 1..Len(out')} = kept
               /\ \A j \in 1..Len(out') : out'[j] = imp_vol_data[out'[j].index]
               /\ \A j \in 1..(Len(out') - 1) : out'[j].index < out'[j + 1].index
    ]_vars

\* a row with volume <= 10 and an ordinary volatility was dropped, and so was
\* an outlier with volume > 10, while other rows were kept
C10_Witness ==
    /\ pc = "filter_done"
    /\ has_volume
    /\ Len(out) > 0
    /\ \E j \in 1..Len(imp_vol_data) :
          /\ imp_vol_data[j].volume <= 10
          /\ \E x \in 1..Len(out) :
                out[x].ImpliedVolatility = imp_vol_data[j].ImpliedVolatility
    /\ \E j \in 1..Len(imp_vol_data) :
          /\ imp_vol_data[j].volume > 10
          /\ \A x \in 1..Len(out) : out[x].index # j

===========================================================================
